---- MODULE Spec2Model ----
(***************************************************************************)
(* Model of src/src/order_book.rs: Order, Limit (a price level) and        *)
(* OrderBook (per side a Vec<Limit> and a HashMap from price.to_string()   *)
(* to the Limit's position).                                               *)
(*                                                                         *)
(* f64 sizes and volumes are modelled as binary floating-point numbers     *)
(* with Precision significand bits (f64 has 53), round-to-nearest-even, in *)
(* units of the smallest size that occurs: a value is an integer, and the  *)
(* result of + and - is rounded to Precision significant bits.             *)
(* Uuid::new_v4() is modelled as a value that no earlier call returned.    *)
(* Order.timestamp is read by no operation and is left out.                *)
(***************************************************************************)
EXTENDS Integers, Sequences, FiniteSets

\* ------------------------------------------------------------------ bounds
\* Significand bits of the modelled floating-point format (f64: 53).
Precision == 5
\* Number of Order::new calls in a run.
MaxOrders == 3
\* Number of orders the caller holds at once before placing them.
MaxDetached == 1

\* ------------------------------------------------------------ f64 arithmetic
RECURSIVE Pow2(_)
Pow2(n) == IF n = 0 THEN 1 ELSE 2 * Pow2(n - 1)

\* The spacing of representable values around magnitude m: the least power
\* of two u with m \div u < 2^Precision.
RECURSIVE Ulp(_, _)
Ulp(m, u) == IF m \div u < Pow2(Precision) THEN u ELSE Ulp(m, 2 * u)

\* Round a magnitude to the nearest representable value, ties to even.
RoundMag(m) ==
    LET u == Ulp(m, 1)
        q == m \div u
        r == m % u
        up == (2 * r > u) \/ (2 * r = u /\ q % 2 = 1)
    IN  IF up THEN (q + 1) * u ELSE q * u

Round(x) == IF x < 0 THEN 0 - RoundMag(0 - x) ELSE RoundMag(x)

\* f64 addition and subtraction (total_volume += size, total_volume -= size).
FAdd(a, b) == Round(a + b)
FSub(a, b) == Round(a - b)

\* ------------------------------------------------------------------ inputs
OrderType == {"Bid", "Ask"}

\* A size too large for the unit to survive an addition to it.
Big == Pow2(Precision + 1)

\* Sizes handed to Order::new (any f64 is accepted, line 35): the tests'
\* 5, 8 and 10, the unit, zero, and Big.
Sizes == {0, 1, 5, 8, 10, Big}

\* Sizes of the orders handed to the OrderBook, which reads no size itself.
BookSizes == {1}

\* Prices handed to Limit::new and OrderBook::add_order.
Prices == {1, 10}

\* Option<T>
None == << >>
Some(x) == << x >>

\* ------------------------------------------------------------------- state
VARIABLES
    orders,           \* Orders created by Order::new and not yet moved into a Limit
    limit,            \* a Limit owned by the caller (as in the tests), or None
    limits,           \* OrderBook.limits: OrderType -> Seq(Limit)
    limits_by_price,  \* OrderBook.limits_by_price: OrderType -> (key -> position)
    order_uuids,      \* how many uuids Order::new has drawn
    limit_uuids,      \* how many uuids Limit::new has drawn
    last              \* the call just made and its result

vars == << orders, limit, limits, limits_by_price, order_uuids, limit_uuids, last >>

\* Uuid::new_v4(): a value no earlier call returned. The n-th uuid drawn by
\* Order::new and the n-th drawn by Limit::new are all distinct values.
OrderUuid(n) == << "order", n >>
LimitUuid(n) == << "limit", n >>

\* The caller's own Limit, as the target of a call.
Lone == << "Lone", 0 >>

\* ------------------------------------------------------------ f64::to_string
Digit(d) == CASE d = 0 -> "0" [] d = 1 -> "1" [] d = 2 -> "2" [] d = 3 -> "3"
              [] d = 4 -> "4" [] d = 5 -> "5" [] d = 6 -> "6" [] d = 7 -> "7"
              [] d = 8 -> "8" [] d = 9 -> "9"

RECURSIVE Digits(_)
Digits(n) == IF n < 10 THEN << Digit(n) >> ELSE Append(Digits(n \div 10), Digit(n % 10))

\* A key cut to its first character.
to_string_first_char(p) ==
    IF p < 0 THEN << "-" >> ELSE << Digits(p)[1] >>

\* price.to_string() of an integral f64: its decimal digits, "-" first if negative.
to_string(p) == IF p < 0 THEN << "-" >> \o Digits(0 - p) ELSE Digits(p)

\* ------------------------------------------------------------------- Order
\* Order::new with a constant in place of a fresh uuid.
Order_new_nil_uuid(id, order_type, size) ==
    [id |-> << "order", 0 >>, order_type |-> order_type, size |-> size,
     limit_id |-> None]

Order_new(id, order_type, size) ==
    [id |-> id, order_type |-> order_type, size |-> size, limit_id |-> None]

\* ------------------------------------------------------------------- Limit
Limit_new(id, price) ==
    [id |-> id, price |-> price, orders |-> << >>, total_volume |-> 0]

\* add_order without the assignment to o.limit_id.
Limit_add_order_no_back_reference(self, o) ==
    [self EXCEPT !.total_volume = FAdd(self.total_volume, o.size),
                 !.orders = Append(self.orders, o)]

\* add_order that puts the order in front of the members.
Limit_add_order_front(self, o) ==
    LET o1 == [o EXCEPT !.limit_id = Some(self.id)]
    IN  [self EXCEPT !.total_volume = FAdd(self.total_volume, o1.size),
                     !.orders = << o1 >> \o self.orders]

Limit_add_order(self, o) ==
    LET o1 == [o EXCEPT !.limit_id = Some(self.id)]
    IN  [self EXCEPT !.total_volume = FAdd(self.total_volume, o1.size),
                     !.orders = Append(self.orders, o1)]

\* position(..).unwrap_or(0) where the Option was meant: index 0 for an id
\* that no member has.
Position_or_first(s, order_id) ==
    LET hits == {i \in 1..Len(s) : s[i].id = order_id}
    IN  IF hits = {} THEN (IF s = << >> THEN None ELSE Some(0))
        ELSE Some((CHOOSE i \in hits : \A j \in hits : i <= j) - 1)

\* Iterator::position: the first index (from 0) whose order has the id, or None.
Position(s, order_id) ==
    LET hits == {i \in 1..Len(s) : s[i].id = order_id}
    IN  IF hits = {} THEN None
        ELSE Some((CHOOSE i \in hits : \A j \in hits : i <= j) - 1)

\* pop() where swap_remove(i) was meant: the last element goes, whatever i.
SwapRemove_pop(s, i) == SubSeq(s, 1, Len(s) - 1)

\* Vec::swap_remove(i): the element at i is replaced by the last element,
\* which is popped.
SwapRemove(s, i) ==
    LET n == Len(s)
    IN  [k \in 1..(n - 1) |-> IF k = i + 1 THEN s[n] ELSE s[k]]

\* remove_order that leaves total_volume as it was.
Limit_remove_order_keeps_volume(self, order_id) ==
    LET index == Position(self.orders, order_id)
    IN  IF index # None
        THEN [self |-> [self EXCEPT !.orders = SwapRemove(self.orders, index[1])],
              res |-> "Ok",
              removed |-> Some([self.orders[index[1] + 1] EXCEPT !.limit_id = None])]
        ELSE [self |-> self, res |-> "Err", removed |-> None]

\* The Limit after the call, the Result, and the order taken out (dropped
\* when the call returns).
Limit_remove_order(self, order_id) ==
    LET index == Position(self.orders, order_id)
    IN  IF index # None
        THEN LET i == index[1]
                 removed_order == [self.orders[i + 1] EXCEPT !.limit_id = None]
             IN  [self |-> [self EXCEPT
                              !.orders = SwapRemove(self.orders, i),
                              !.total_volume = FSub(self.total_volume, removed_order.size)],
                  res |-> "Ok",
                  removed |-> Some(removed_order)]
        ELSE [self |-> self, res |-> "Err", removed |-> None]

\* --------------------------------------------------------------- OrderBook
\* An insert that is left out.
MapInsert_nothing(m, k, v) == m

\* HashMap::insert
MapInsert(m, k, v) == [x \in DOMAIN m \cup {k} |-> IF x = k THEN v ELSE m[x]]

\* HashMap::new()
EmptyMap == [x \in {} |-> 0]

\* The position taken after the push instead of before it.
NewLimitIdx_after_push(lims) == Len(lims) + 1

\* let new_limit_idx = limits.len(), taken before the push.
NewLimitIdx(lims) == Len(lims)

\* The book after add_order(price, order), the Result, and how many uuids
\* Limit::new drew.
OrderBook_add_order(price, order) ==
    LET price_key == to_string(price)
        side == order.order_type
        lims == limits[side]
        price_to_limit_idx_map == limits_by_price[side]
    IN  IF price_key \in DOMAIN price_to_limit_idx_map
        THEN LET limit_idx == price_to_limit_idx_map[price_key]
             IN  IF limit_idx < Len(lims)
                 THEN [limits |-> [limits EXCEPT ![side][limit_idx + 1] =
                                        Limit_add_order(@, order)],
                       limits_by_price |-> limits_by_price,
                       res |-> "Ok", drawn |-> 0]
                 ELSE [limits |-> limits,
                       limits_by_price |-> limits_by_price,
                       res |-> "Err", drawn |-> 0]
        ELSE LET new_limit == Limit_add_order(
                                  Limit_new(LimitUuid(limit_uuids + 1), price), order)
                 new_limit_idx == NewLimitIdx(lims)
             IN  [limits |-> [limits EXCEPT ![side] = Append(lims, new_limit)],
                  limits_by_price |-> [limits_by_price EXCEPT ![side] =
                        MapInsert(price_to_limit_idx_map, price_key, new_limit_idx)],
                  res |-> "Ok", drawn |-> 1]

\* -------------------------------------------------------------------- Init
Call(op, target, id, price, res) ==
    [op |-> op, target |-> target, id |-> id, price |-> price, res |-> res]

\* OrderBook::new(): both sides present and empty. The caller holds no
\* Order and no Limit yet.
Init ==
    /\ orders = {}
    /\ limit = None
    /\ limits = [e \in OrderType |-> << >>]
    /\ limits_by_price = [e \in OrderType |-> EmptyMap]
    /\ order_uuids = 0
    /\ limit_uuids = 0
    /\ last = Call("OrderBook::new", Lone, << "none", 0 >>, 0, "Ok")

\* ----------------------------------------------------------------- actions
\* Order::new(order_type, size): the caller holds the new, detached order.
OrderNew(order_type, size) ==
    /\ order_uuids < MaxOrders
    /\ Cardinality(orders) < MaxDetached
    /\ order_uuids' = order_uuids + 1
    /\ orders' = orders \cup {Order_new(OrderUuid(order_uuids + 1), order_type, size)}
    /\ last' = Call("Order::new", Lone, OrderUuid(order_uuids + 1), 0, "Ok")
    /\ UNCHANGED << limit, limits, limits_by_price, limit_uuids >>

\* Limit::new(price): the caller holds a Limit of its own.
LimitNew(price) ==
    /\ limit = None
    /\ limit_uuids' = limit_uuids + 1
    /\ limit' = Some(Limit_new(LimitUuid(limit_uuids + 1), price))
    /\ last' = Call("Limit::new", Lone, LimitUuid(limit_uuids + 1), price, "Ok")
    /\ UNCHANGED << orders, limits, limits_by_price, order_uuids >>

\* limit.add_order(o) on the caller's Limit; o is moved into it.
LimitAddOrder(o) ==
    /\ limit # None
    /\ o \in orders
    /\ limit' = Some(Limit_add_order(limit[1], o))
    /\ orders' = orders \ {o}
    /\ last' = Call("Limit::add_order", Lone, o.id, 0, "Ok")
    /\ UNCHANGED << limits, limits_by_price, order_uuids, limit_uuids >>

\* limit.remove_order(order_id) on the caller's Limit.
LimitRemoveOrder(order_id) ==
    /\ limit # None
    /\ LET r == Limit_remove_order(limit[1], order_id)
       IN  /\ limit' = Some(r.self)
           /\ last' = Call("Limit::remove_order", Lone, order_id, 0, r.res)
    /\ UNCHANGED << orders, limits, limits_by_price, order_uuids, limit_uuids >>

\* add_order that looks the order up on the opposite side.
BookAddOrder_other_side(price, o) ==
    /\ o \in orders
    /\ LET r == OrderBook_add_order(price,
                    [o EXCEPT !.order_type = IF @ = "Bid" THEN "Ask" ELSE "Bid"])
       IN  /\ limits' = r.limits
           /\ limits_by_price' = r.limits_by_price
           /\ limit_uuids' = limit_uuids + r.drawn
           /\ last' = Call("OrderBook::add_order", << o.order_type, 0 >>, o.id, price, r.res)
    /\ orders' = orders \ {o}
    /\ UNCHANGED << limit, order_uuids >>

\* order_book.add_order(price, o); o is moved into the call (and dropped
\* with it when it returns Err).
BookAddOrder(price, o) ==
    /\ o \in orders
    /\ LET r == OrderBook_add_order(price, o)
       IN  /\ limits' = r.limits
           /\ limits_by_price' = r.limits_by_price
           /\ limit_uuids' = limit_uuids + r.drawn
           /\ last' = Call("OrderBook::add_order", << o.order_type, 0 >>, o.id, price, r.res)
    /\ orders' = orders \ {o}
    /\ UNCHANGED << limit, order_uuids >>

\* limits[side][idx].remove_order(order_id) on a Limit the book holds.
BookLimitRemoveOrder(side, idx, order_id) ==
    /\ idx < Len(limits[side])
    /\ LET r == Limit_remove_order(limits[side][idx + 1], order_id)
       IN  /\ limits' = [limits EXCEPT ![side][idx + 1] = r.self]
           /\ last' = Call("Limit::remove_order", << side, idx >>, order_id, 0, r.res)
    /\ UNCHANGED << orders, limit, limits_by_price, order_uuids, limit_uuids >>

\* Identities a caller can pass to remove_order: the uuid of every order
\* created so far (resting anywhere, still detached, or already removed).
KnownIds == {OrderUuid(n) : n \in 1..order_uuids}

\* A Limit used on its own with Bid orders, as the tests do (a Limit reads
\* no order_type).
LimitNext ==
    \/ \E s \in Sizes : OrderNew("Bid", s)
    \/ \E p \in Prices : LimitNew(p)
    \/ \E o \in orders : LimitAddOrder(o)
    \/ \E id \in KnownIds : LimitRemoveOrder(id)

LimitSpec == Init /\ [][LimitNext]_vars

\* An OrderBook and the Limits it holds.
Next ==
    \/ \E t \in OrderType, s \in BookSizes : OrderNew(t, s)
    \/ \E p \in Prices, o \in orders : BookAddOrder(p, o)
    \/ \E side \in OrderType, idx \in 0..(MaxOrders - 1), id \in KnownIds :
          BookLimitRemoveOrder(side, idx, id)

Spec == Init /\ [][Next]_vars

\* ------------------------------------------------------------------ claims
\* The sum of the sizes of a member sequence, added up in f64 from 0.0 in
\* sequence order (orders.iter().map(|o| o.size).sum()).
RECURSIVE SumSizes(_)
SumSizes(s) ==
    IF s = << >> THEN 0
    ELSE FAdd(SumSizes(SubSeq(s, 1, Len(s) - 1)), s[Len(s)].size)

\* The ids of a member sequence, in sequence order.
Ids(s) == [k \in 1..Len(s) |-> s[k].id]

\* The member sequence without the order of the given id, the others in
\* the order they had.
Without(s, order_id) == SelectSeq(s, LAMBDA o : o.id # order_id)

\* The step just taken was limit.remove_order on the caller's Limit.
LoneRemove == last'.op = "Limit::remove_order" /\ last'.target = Lone

\* The step just taken was limit.add_order on the caller's Limit.
LoneAdd == last'.op = "Limit::add_order" /\ last'.target = Lone

\* C1 Volume conservation: in every state reached by add_order and
\* remove_order calls on a Limit made by Limit::new, total_volume equals the
\* sum of the sizes of the orders in its member sequence (zero when the
\* sequence is empty).
C1_VolumeConservation ==
    limit # None => limit[1].total_volume = SumSizes(limit[1].orders)

\* C2 Time-priority preservation: a successful remove_order of any member
\* leaves the remaining members in the relative order they had.
C2_TimePriorityPreserved ==
    [][(LoneRemove /\ last'.res = "Ok")
          => limit'[1].orders = Without(limit[1].orders, last'.id)]_vars

\* C3 Index consistency: on each side every non-empty Limit is the one its
\* price resolves to through limits_by_price, and every indexed price
\* resolves to a Limit that exists, has that price and is non-empty.
C3_IndexConsistency ==
    \A side \in OrderType :
        /\ \A i \in 1..Len(limits[side]) :
              limits[side][i].orders # << >> =>
                  /\ to_string(limits[side][i].price) \in DOMAIN limits_by_price[side]
                  /\ limits_by_price[side][to_string(limits[side][i].price)] = i - 1
        /\ \A key \in DOMAIN limits_by_price[side] :
              LET idx == limits_by_price[side][key]
              IN  /\ idx < Len(limits[side])
                  /\ to_string(limits[side][idx + 1].price) = key
                  /\ limits[side][idx + 1].orders # << >>

\* C4 Idempotent-safe cancellation: remove_order with the identity of a
\* resting order, called twice in a row on the same Limit, returns Ok and
\* then the order-not-found error.
C4_SecondCancelFails ==
    [][(/\ last.op = "Limit::remove_order"
        /\ last.res = "Ok"
        /\ last'.op = "Limit::remove_order"
        /\ last'.target = last.target
        /\ last'.id = last.id)
          => last'.res = "Err"]_vars

\* An order of the caller's that went into its Limit and was taken out again.
WasRemoved(order_id) ==
    /\ order_id \in {OrderUuid(n) : n \in 1..order_uuids}
    /\ \A o \in orders : o.id # order_id
    /\ limit # None
    /\ \A k \in 1..Len(limit[1].orders) : limit[1].orders[k].id # order_id

\* C4 happens: the last call was a failed remove_order of an order that an
\* earlier remove_order took out of the Limit, which still has members.
C4_Witness ==
    /\ last.op = "Limit::remove_order"
    /\ last.res = "Err"
    /\ WasRemoved(last.id)
    /\ limit[1].orders # << >>

\* C5 Order creation fails when size <= 0, so no order of non-positive size
\* exists, rests in a Limit or counts in a Limit's volume.
C5_NoNonPositiveSize ==
    /\ \A o \in orders : o.size > 0
    /\ limit # None => \A k \in 1..Len(limit[1].orders) : limit[1].orders[k].size > 0

\* Where orders rest in the book: side, position of the Limit (from 1),
\* position in its member sequence (from 1).
Resting ==
    {<< side, i, k >> \in OrderType \X (1..MaxOrders) \X (1..MaxOrders) :
        i <= Len(limits[side]) /\ k <= Len(limits[side][i].orders)}

RestingOrder(w) == limits[w[1]][w[2]].orders[w[3]]

\* C6 Uniqueness: no two orders resting in the book, on either side and in
\* any Limits, share an identity; each resting order is in exactly one Limit
\* (its identity occurs at one place only).
C6_Uniqueness ==
    \A v \in Resting, w \in Resting :
        RestingOrder(v).id = RestingOrder(w).id => v = w

\* C6 happens: after a successful remove_order, orders still rest in two
\* Limits of the book.
C6_Witness ==
    /\ last.op = "Limit::remove_order"
    /\ last.res = "Ok"
    /\ \E v \in Resting, w \in Resting : << v[1], v[2] >> # << w[1], w[2] >>

\* The order handed to the call just made, as the caller held it.
Handed == CHOOSE o \in orders : o.id = last'.id

\* C7 Find-or-create: add_order(price, order) returns Ok and, on the order's
\* side, appends the order to the Limit the index has for the price, adding
\* no Limit and no index entry; with no entry for the price it appends one
\* new Limit of that price holding only this order and enters its position
\* in the index under the price.
C7_FindOrCreate ==
    [][last'.op = "OrderBook::add_order" =>
        LET side == last'.target[1]
            key == to_string(last'.price)
            old == limits[side]
            new == limits'[side]
            attached == [Handed EXCEPT !.limit_id = Some(new[Len(new)].id)]
        IN  /\ last'.res = "Ok"
            /\ IF key \in DOMAIN limits_by_price[side]
               THEN LET i == limits_by_price[side][key] + 1
                    IN  /\ Len(new) = Len(old)
                        /\ limits_by_price'[side] = limits_by_price[side]
                        /\ to_string(new[i].price) = key
                        /\ new[i].orders = Append(old[i].orders,
                                [Handed EXCEPT !.limit_id = Some(old[i].id)])
                        /\ new[i].id = old[i].id
                        /\ \A j \in 1..Len(old) : j # i => new[j] = old[j]
               ELSE /\ Len(new) = Len(old) + 1
                    /\ SubSeq(new, 1, Len(old)) = old
                    /\ new[Len(new)].price = last'.price
                    /\ new[Len(new)].orders = << attached >>
                    /\ DOMAIN limits_by_price'[side] =
                          DOMAIN limits_by_price[side] \cup {key}
                    /\ limits_by_price'[side][key] = Len(old)
                    /\ \A x \in DOMAIN limits_by_price[side] :
                          limits_by_price'[side][x] = limits_by_price[side][x]
                    /\ (old = << >> => Len(new) = 1)]_vars

\* C7 happens: the last add_order put its order behind another one in a
\* Limit that already existed, on a side that has a second Limit.
C7_Witness ==
    /\ last.op = "OrderBook::add_order"
    /\ \E side \in OrderType :
          /\ Len(limits[side]) >= 2
          /\ \E i \in 1..Len(limits[side]) :
                /\ Len(limits[side][i].orders) >= 2
                /\ limits[side][i].orders[Len(limits[side][i].orders)].id = last.id

Member == limit[1].orders[CHOOSE k \in 1..Len(limit[1].orders) :
                              limit[1].orders[k].id = last'.id]

Target(call) == limits[call.target[1]][call.target[2] + 1]

\* C11 Failed eviction changes nothing: remove_order with an identity that
\* is not among the Limit's members (never admitted, already removed, or
\* resting in another Limit) returns an error and leaves the Limit's member
\* sequence and total_volume (and the rest of the book) as they were.
C11_FailedEvictionChangesNothing ==
    [][(/\ last'.op = "Limit::remove_order"
        /\ \A k \in 1..Len(Target(last').orders) : Target(last').orders[k].id # last'.id)
          => /\ last'.res = "Err"
             /\ limits' = limits
             /\ limits_by_price' = limits_by_price]_vars

\* C11 happens: the last remove_order failed on a Limit that has members,
\* for the identity of an order resting in another Limit of the book.
C11_Witness ==
    /\ last.op = "Limit::remove_order"
    /\ last.res = "Err"
    /\ Target(last).orders # << >>
    /\ \E w \in Resting :
          /\ RestingOrder(w).id = last.id
          /\ << w[1], w[2] - 1 >> # last.target

Holders(order_id) ==
    Cardinality({<< w[1], w[2] >> : w \in {v \in Resting : RestingOrder(v).id = order_id}})

\* Every order that exists has its limit_id set exactly when one Limit
\* holds it, and then to that Limit's id.
BackReferencesAgree ==
    /\ \A o \in orders : o.limit_id = None /\ Holders(o.id) = 0
    /\ \A w \in Resting :
          /\ RestingOrder(w).limit_id = Some(limits[w[1]][w[2]].id)
          /\ Holders(RestingOrder(w).id) = 1
    /\ \A v \in Resting, w \in Resting :
          RestingOrder(v).limit_id = RestingOrder(w).limit_id
              => << v[1], v[2] >> = << w[1], w[2] >>

\* The order a successful remove_order on a Limit of the book takes out, as
\* it is when the call drops it.
Evicted == Limit_remove_order(Target(last'), last'.id).removed

\* C13 Back-reference consistency: an order made by Order::new and not yet
\* admitted has limit_id None; every member of a Limit has limit_id equal to
\* that Limit's id; an order's limit_id is set if and only if it is in the
\* member sequence of exactly one Limit (an order taken out of its Limit has
\* limit_id None again).
C13_BackReference ==
    /\ []BackReferencesAgree
    /\ [][(last'.op = "Limit::remove_order" /\ last'.res = "Ok")
            => /\ Evicted # None
               /\ Evicted[1].id = last'.id
               /\ Evicted[1].limit_id = None
               /\ \A side \in OrderType : \A i \in 1..Len(limits'[side]) :
                     \A k \in 1..Len(limits'[side][i].orders) :
                         limits'[side][i].orders[k].id # last'.id]_vars

\* C13 happens: the caller holds a new, detached order while orders rest in
\* two Limits of the book.
C13_Witness ==
    /\ last.op = "Order::new"
    /\ \E o \in orders : o.id = last.id
    /\ \E v \in Resting, w \in Resting : << v[1], v[2] >> # << w[1], w[2] >>

\* C14 add_order never fails: every position stored in limits_by_price is
\* smaller than the number of Limits of its side, and every add_order
\* returns Ok with its order resting in the book.
C14_AddOrderNeverFails ==
    /\ \A side \in OrderType : \A key \in DOMAIN limits_by_price[side] :
          limits_by_price[side][key] < Len(limits[side])
    /\ last.op = "OrderBook::add_order" =>
          /\ last.res = "Ok"
          /\ \E w \in Resting :
                /\ RestingOrder(w).id = last.id
                /\ w[1] = last.target[1]
                /\ limits[w[1]][w[2]].price = last.price

\* C14 happens: every order created was handed to add_order, the last one
\* at a price that already had a Limit, and all of them rest in the book.
C14_Witness ==
    /\ last.op = "OrderBook::add_order"
    /\ last.res = "Ok"
    /\ order_uuids >= 3
    /\ Cardinality(Resting) = order_uuids
    /\ Len(limits["Bid"]) + Len(limits["Ask"]) < order_uuids

\* C15 Side independence: add_order with an order of one side leaves the
\* other side's Limit sequence (the Limits, their members and volumes) and
\* its price index unchanged; a price inserted on both sides has a Limit of
\* its own on each side.
C15_SideIndependence ==
    [][last'.op = "OrderBook::add_order" =>
        \A other \in OrderType \ {last'.target[1]} :
            /\ limits'[other] = limits[other]
            /\ limits_by_price'[other] = limits_by_price[other]
            /\ \E i \in 1..Len(limits'[last'.target[1]]) :
                  /\ limits'[last'.target[1]][i].price = last'.price
                  /\ \A j \in 1..Len(limits'[other]) :
                        limits'[other][j].id # limits'[last'.target[1]][i].id]_vars

\* C15 happens: the last add_order put an order at a price at which the
\* other side already had a Limit with a member, and each side now has its
\* own Limit of that price.
C15_Witness ==
    /\ last.op = "OrderBook::add_order"
    /\ \E i \in 1..Len(limits["Bid"]), j \in 1..Len(limits["Ask"]) :
          /\ limits["Bid"][i].price = last.price
          /\ limits["Ask"][j].price = last.price
          /\ limits["Bid"][i].id # limits["Ask"][j].id
          /\ limits["Bid"][i].orders # << >>
          /\ limits["Ask"][j].orders # << >>

\* C16 Limits are append-only and position-stable: a Limit once created is
\* never removed and keeps its position, price and id, the index entry of
\* its price never changes, and an add_order at one price changes the
\* members and volume of no Limit of another price.
C16_AppendOnly ==
    [][\A side \in OrderType :
        /\ Len(limits'[side]) >= Len(limits[side])
        /\ \A i \in 1..Len(limits[side]) :
              /\ limits'[side][i].id = limits[side][i].id
              /\ limits'[side][i].price = limits[side][i].price
              /\ (last'.op = "OrderBook::add_order"
                    /\ limits[side][i].price # last'.price)
                    => limits'[side][i] = limits[side][i]
        /\ \A key \in DOMAIN limits_by_price[side] :
              /\ key \in DOMAIN limits_by_price'[side]
              /\ limits_by_price'[side][key] = limits_by_price[side][key]]_vars

\* C16 happens: the last add_order created the second Limit of a side whose
\* first Limit, of another price, holds two members.
C16_Witness ==
    /\ last.op = "OrderBook::add_order"
    /\ \E side \in OrderType :
          /\ Len(limits[side]) = 2
          /\ Len(limits[side][1].orders) = 2
          /\ limits[side][2].price = last.price
          /\ limits[side][2].orders[1].id = last.id
          /\ limits[side][1].price # last.price
====
